---- MODULE Spec2Model ----
(***************************************************************************)
(* Anagrams (src/src/anagrams.py): an index from the sorted, lowercased,   *)
(* space-free form of a word to the words of a source file that share it.  *)
(*                                                                         *)
(* Text is modelled as a sequence of code points (97 is 'a', 65 is 'A',    *)
(* 32 the space, 10 the line feed, 13 the carriage return, 45 the hyphen,  *)
(* 9 the tab, 931/963/962 the Greek capital, small and final sigma).  A    *)
(* unit of -1 in a file stands for a byte sequence that is not valid       *)
(* UTF-8.  A dictionary is a function whose domain is its key set.         *)
(***************************************************************************)
EXTENDS Integers, Sequences, FiniteSets

VARIABLES
    words_file_path,  \* the path given to the constructor
    source,           \* the file at that path: [kind, content]
    pc,               \* position of the construction / lifetime of the object
    file,             \* read_file's local variable `file`
    handles,          \* state of the two handle objects read_file may create
    words,            \* the list read_file yields to the with-body
    idx,              \* position of the for loop of __post_init__ in words
    anagrams,         \* self.anagrams
    exc,              \* the exception in flight / escaping the constructor
    query,            \* argument of the last get_anagrams call
    result            \* value returned by the last get_anagrams call

vars == <<words_file_path, source, pc, file, handles, words, idx, anagrams,
          exc, query, result>>

\* ---------------------------------------------------------------- bounds

\* Largest number of (word, terminator) pieces a source file is made of.
MaxLines == 3

\* ------------------------------------------------------------ characters

LF == 10
SP == 32

\* A lowering that leaves every character as it is.
LowerNone(c) == c

\* str.lower() of one character that is not the capital sigma: the ASCII
\* capitals map to their small letters, every other character of the model
\* (small letters, punctuation, whitespace, small sigmas) maps to itself.
LowerSimple(c) == IF c >= 65 /\ c <= 90 THEN c + 32 ELSE c

\* Characters with the Unicode property Cased, among those of the model.
Cased(c) == \/ (c >= 65 /\ c <= 90)
            \/ (c >= 97 /\ c <= 122)
            \/ c \in {931, 962, 963}

\* str.lower(): the capital sigma (931) becomes the final sigma (962) when a
\* cased character precedes it and none follows it, the small sigma (963)
\* otherwise; no character of the model is case-ignorable.
Lower(w) ==
    [p \in 1..Len(w) |->
        IF w[p] = 931
        THEN IF /\ p > 1
                /\ Cased(w[p - 1])
                /\ (p = Len(w) \/ ~Cased(w[p + 1]))
             THEN 962
             ELSE 963
        ELSE LowerSimple(w[p])]

\* word.replace(c, '')
Remove(w, c) == SelectSeq(w, LAMBDA x : x # c)

RECURSIVE Insert(_, _)
Insert(c, s) ==
    IF s = <<>> THEN <<c>>
    ELSE IF c <= Head(s) THEN <<c>> \o s
    ELSE <<Head(s)>> \o Insert(c, Tail(s))

\* ''.join(sorted(list(word))): the characters in code point order.
RECURSIVE Sorted(_)
Sorted(w) == IF w = <<>> THEN <<>> ELSE Insert(Head(w), Sorted(Tail(w)))

\* A hash that drops the tab with the space.
anagram_hash_no_whitespace(word) ==
    Sorted(Lower(SelectSeq(word, LAMBDA x : x # SP /\ x # 9)))

\* Lines 51-55: the word without its spaces, lowercased, its characters
\* sorted.
anagram_hash(word) == Sorted(Lower(Remove(word, SP)))

\* --------------------------------------------------------------- reading

\* readlines() of a binary file: a line ends after each line feed.
RECURSIVE SplitLines(_, _)
SplitLines(s, cur) ==
    IF s = <<>> THEN (IF cur = <<>> THEN <<>> ELSE <<cur>>)
    ELSE IF Head(s) = LF THEN <<Append(cur, LF)>> \o SplitLines(Tail(s), <<>>)
    ELSE SplitLines(Tail(s), Append(cur, Head(s)))

BinaryReadlines(content) == SplitLines(content, <<>>)

\* Universal newlines of a text-mode file: "\r\n" and a lone "\r" are read
\* as "\n".
RECURSIVE Translate(_)
Translate(s) ==
    IF s = <<>> THEN <<>>
    ELSE IF Head(s) = 13
         THEN IF Len(s) > 1 /\ s[2] = LF
              THEN <<LF>> \o Translate(Tail(Tail(s)))
              ELSE <<LF>> \o Translate(Tail(s))
         ELSE <<Head(s)>> \o Translate(Tail(s))

TextReadlines(content) == SplitLines(Translate(content), <<>>)

\* Whether a unit sequence decodes as UTF-8.
Decodable(s) == \A p \in 1..Len(s) : s[p] >= 0

\* ------------------------------------------------------------ the index

EmptyDict == [k \in {} |-> <<>>]

\* A bucket that grows at its front.
BucketPrepend(bucket, word) == <<word>> \o bucket

\* list.append(word)
BucketAppend(bucket, word) == Append(bucket, word)

\* dict.setdefault(key, [])
SetDefault(d, key) ==
    [k \in DOMAIN d \cup {key} |-> IF k \in DOMAIN d THEN d[k] ELSE <<>>]

\* A store that hashes the line as read, with its line feed.
store_anagram_raw_key(d, word) ==
    LET w == Remove(word, LF)
        key == anagram_hash(word)
        e == SetDefault(d, key)
    IN  [e EXCEPT ![key] = BucketAppend(e[key], w)]

\* Lines 47-49, store_anagram: the line without its line feed is appended
\* to the bucket of its hash, which is created when it is missing.
store_anagram(d, word) ==
    LET w == Remove(word, LF)
        key == anagram_hash(w)
        e == SetDefault(d, key)
    IN  [e EXCEPT ![key] = BucketAppend(e[key], w)]

\* An Optional[List[str]] value.
None == [isNone |-> TRUE, value |-> <<>>]
Some(v) == [isNone |-> FALSE, value |-> v]

\* A get that answers a missing key with an empty list.
DictGetDefault(d, key) == IF key \in DOMAIN d THEN Some(d[key]) ELSE Some(<<>>)

\* dict.get(key): the value of a present key, None for a missing one.
DictGet(d, key) == IF key \in DOMAIN d THEN Some(d[key]) ELSE None

\* ------------------------------------------------------------ exceptions

NoExc == [type |-> "none", msg |-> <<>>]
Raised(t) == [type |-> t, msg |-> <<>>]

\* RuntimeError(f'Unsupported file {words_file_path}')
Unsupported(path) ==
    [type |-> "RuntimeError", msg |-> <<"Unsupported file ", path>>]

\* --------------------------------------------------------------- inputs

\* The paths a source may have: the gzip files are words.txt.gz, a plain
\* file is words.txt, or words.txt.bz2 when it is not text; missing.txt
\* does not exist.
PathsOf(src) ==
    CASE src.kind = "missing" -> {"missing.txt"}
      [] src.kind \in {"gzip", "truncated"} -> {"words.txt.gz"}
      [] OTHER -> IF \A p \in DOMAIN src.content : src.content[p] >= 0
                  THEN {"words.txt"}
                  ELSE {"words.txt", "words.txt.bz2"}

\* Lines of a source file, without terminator: a, A, "b a", a-sigma, "-a"
\* and a byte that is not UTF-8.
SourceWords ==
    {<<97>>, <<65>>, <<98, 32, 97>>, <<97, 963>>, <<45, 97>>, <<-1>>}

\* What ends the lines of a source file: "\n" or "\r\n".
Terminators == {<<10>>, <<13, 10>>}

RECURSIVE SeqsUpTo(_, _)
SeqsUpTo(S, n) ==
    IF n = 0 THEN {<<>>}
    ELSE LET prev == SeqsUpTo(S, n - 1)
         IN  prev \cup {Append(ls, w) : ls \in prev, w \in S}

\* The bytes of a file of the lines ls, each ended by t; the last one is
\* ended only when the file ends with a terminator.
RECURSIVE FileBytes(_, _, _)
FileBytes(ls, t, final) ==
    IF ls = <<>> THEN <<>>
    ELSE IF Len(ls) = 1 THEN (IF final THEN ls[1] \o t ELSE ls[1])
    ELSE ls[1] \o t \o FileBytes(Tail(ls), t, final)

Contents ==
    {FileBytes(ls, t, final) :
        ls \in SeqsUpTo(SourceWords, MaxLines), t \in Terminators,
        final \in BOOLEAN}

\* The file at words_file_path: missing (it cannot be opened), a gzip stream
\* cut short, a complete gzip stream of `content`, or the plain bytes
\* `content` (which gzip rejects: they do not start with its magic number).
Sources ==
    {[kind |-> "missing", content |-> <<>>],
     [kind |-> "truncated", content |-> <<>>]}
    \cup [kind : {"gzip", "plain"}, content : Contents]

\* Words asked of get_anagrams: a, A, aA, BA, "a b", "a-", a-tab, a-SIGMA,
\* A-SIGMA, a-sigma.
QueryWords ==
    {<<97>>, <<65>>, <<97, 65>>, <<66, 65>>, <<97, 32, 98>>, <<97, 45>>,
     <<97, 9>>, <<97, 931>>, <<65, 931>>, <<97, 963>>}

\* ---------------------------------------------------------- construction

Init ==
    /\ source \in Sources
    /\ words_file_path \in PathsOf(source)
    /\ pc = "start"
    /\ file = "unbound"
    /\ handles = [gz |-> "none", txt |-> "none"]
    /\ words = <<>>
    /\ idx = 0
    /\ anagrams = EmptyDict
    /\ exc = NoExc
    /\ query = <<>>
    /\ result = None

\* Line 10, gzip.open(words_file_path, 'r'): opens the file itself, so a
\* path that cannot be opened raises here, before `file` is bound.
GzipOpen ==
    /\ pc = "start"
    /\ IF source.kind = "missing"
       THEN /\ exc' = Raised("FileNotFoundError")
            /\ pc' = "finally"
            /\ UNCHANGED <<file, handles>>
       ELSE /\ file' = "gz"
            /\ handles' = [handles EXCEPT !.gz = "open"]
            /\ pc' = "gzread"
            /\ UNCHANGED exc
    /\ UNCHANGED <<words_file_path, source, words, idx, anagrams, query, result>>

\* Line 11, file.readlines() of the gzip file, and the yield.  Bytes that are
\* no gzip stream raise BadGzipFile, caught at line 12; a stream cut short
\* raises EOFError, which no clause catches.  Both leave the with statement
\* of line 10, which closes the gzip file.
GzipReadlines ==
    /\ pc = "gzread"
    /\ CASE source.kind = "gzip" ->
              /\ words' = BinaryReadlines(source.content)
              /\ idx' = 1
              /\ pc' = "body"
              /\ UNCHANGED <<handles, exc>>
         [] source.kind = "plain" ->
              /\ handles' = [handles EXCEPT !.gz = "closed"]
              /\ pc' = "fallback"
              /\ UNCHANGED <<words, idx, exc>>
         [] OTHER ->
              /\ handles' = [handles EXCEPT !.gz = "closed"]
              /\ exc' = Raised("EOFError")
              /\ pc' = "finally"
              /\ UNCHANGED <<words, idx>>
    /\ UNCHANGED <<words_file_path, source, file, anagrams, query, result>>

\* Line 14, open(words_file_path, 'r').
FallbackOpen ==
    /\ pc = "fallback"
    /\ file' = "txt"
    /\ handles' = [handles EXCEPT !.txt = "open"]
    /\ pc' = "txtread"
    /\ UNCHANGED <<words_file_path, source, words, idx, anagrams, exc, query, result>>

\* Lines 15-17, file.readlines() of the text file, and the yield.  The whole
\* file is decoded here; a UnicodeDecodeError leaves the with statement of
\* line 14, which closes the file, and is replaced by the RuntimeError.
FallbackReadlines ==
    /\ pc = "txtread"
    /\ IF Decodable(source.content)
       THEN /\ words' = TextReadlines(source.content)
            /\ idx' = 1
            /\ pc' = "body"
            /\ UNCHANGED <<handles, exc>>
       ELSE /\ handles' = [handles EXCEPT !.txt = "closed"]
            /\ exc' = Unsupported(words_file_path)
            /\ pc' = "finally"
            /\ UNCHANGED <<words, idx>>
    /\ UNCHANGED <<words_file_path, source, file, anagrams, query, result>>

\* Lines 39-45, one iteration of the for loop.  A line of the gzip file is a
\* bytes object, which str(word, 'utf-8') decodes or fails to decode; a line
\* of the text file is a str, for which str(word, enc) raises the TypeError
\* that is passed over.  The UnicodeDecodeError is thrown into read_file at
\* the yield of line 11: the with statement closes the gzip file and line 12
\* does not catch it.
StoreWord ==
    /\ pc = "body"
    /\ idx <= Len(words)
    /\ IF file = "gz" /\ ~Decodable(words[idx])
       THEN /\ handles' = [handles EXCEPT !.gz = "closed"]
            /\ exc' = Raised("UnicodeDecodeError")
            /\ pc' = "finally"
            /\ UNCHANGED <<idx, anagrams>>
       ELSE /\ anagrams' = store_anagram(anagrams, words[idx])
            /\ idx' = idx + 1
            /\ UNCHANGED <<handles, exc, pc>>
    /\ UNCHANGED <<words_file_path, source, file, words, query, result>>

\* The with-body is over: read_file resumes after its yield and leaves the
\* with statement of the file it read, which closes it.
BodyEnd ==
    /\ pc = "body"
    /\ idx > Len(words)
    /\ handles' = [handles EXCEPT ![file] = "closed"]
    /\ pc' = "finally"
    /\ UNCHANGED <<words_file_path, source, file, words, idx, anagrams, exc, query, result>>

\* Line 19, file.close() in the finally clause.  An unbound `file` raises
\* UnboundLocalError, which replaces the exception in flight; closing a
\* closed file does nothing.  Then the constructor returns or fails.
Finally ==
    /\ pc = "finally"
    /\ IF file = "unbound"
       THEN /\ exc' = Raised("UnboundLocalError")
            /\ pc' = "failed"
            /\ UNCHANGED handles
       ELSE /\ handles' = [handles EXCEPT ![file] = "closed"]
            /\ pc' = IF exc = NoExc THEN "ready" ELSE "failed"
            /\ UNCHANGED exc
    /\ UNCHANGED <<words_file_path, source, file, words, idx, anagrams, query, result>>

\* ---------------------------------------------------------------- lookup

\* A lookup through setdefault, which gives a missing key an empty bucket.
get_anagrams_setdefault ==
    /\ pc \in {"ready", "queried"}
    /\ \E word \in QueryWords :
          /\ query' = word
          /\ anagrams' = SetDefault(anagrams, anagram_hash(word))
          /\ result' = Some(anagrams'[anagram_hash(word)])
    /\ pc' = "queried"
    /\ UNCHANGED <<words_file_path, source, file, handles, words, idx, exc>>

\* Lines 57-60, get_anagrams(word) on a constructed object.
get_anagrams ==
    /\ pc \in {"ready", "queried"}
    /\ \E word \in QueryWords :
          /\ query' = word
          /\ result' = DictGet(anagrams, anagram_hash(word))
    /\ pc' = "queried"
    /\ UNCHANGED <<words_file_path, source, file, handles, words, idx, anagrams, exc>>

Next ==
    \/ GzipOpen
    \/ GzipReadlines
    \/ FallbackOpen
    \/ FallbackReadlines
    \/ StoreWord
    \/ BodyEnd
    \/ Finally
    \/ get_anagrams

Spec == Init /\ [][Next]_vars

TypeOK ==
    /\ pc \in {"start", "gzread", "fallback", "txtread", "body", "finally",
               "ready", "queried", "failed"}
    /\ file \in {"unbound", "gz", "txt"}
    /\ \A h \in {"gz", "txt"} : handles[h] \in {"none", "open", "closed"}
    /\ idx \in 0..(Len(words) + 1)

\* ----------------------------------------------------------- properties

\* The constructor has returned or failed.
Built == pc \in {"ready", "queried"}
Finished == pc \in {"ready", "queried", "failed"}

Range(f) == {f[x] : x \in DOMAIN f}

\* The words of the source: the lines read, without their line feed.
SourceLines == [j \in 1..Len(words) |-> Remove(words[j], LF)]

Count(s, c) == Cardinality({p \in DOMAIN s : s[p] = c})

\* The same characters, each as many times, in any order.
SameBag(s, t) == \A c \in Range(s) \cup Range(t) : Count(s, c) = Count(t, c)

\* C1: after a successful build every stored word lies in the bucket of its
\* own anagram_hash and in no other, and a lookup of a word with the hash of
\* a source word returns a bucket that holds that source word.
C1_WordsUnderOwnKey ==
    /\ \A k \in DOMAIN anagrams :
          \A p \in DOMAIN anagrams[k] : anagram_hash(anagrams[k][p]) = k
    /\ pc = "queried" =>
          \A j \in DOMAIN SourceLines :
              anagram_hash(SourceLines[j]) = anagram_hash(query) =>
                  /\ ~result.isNone
                  /\ SourceLines[j] \in Range(result.value)

\* A lookup of a word that is not in the source returned two source words.
C1_Witness ==
    /\ pc = "queried"
    /\ ~result.isNone
    /\ Len(result.value) >= 2
    /\ query \notin Range(SourceLines)

\* C2: after the build the keys are the hashes of the source lines, and the
\* bucket of a key is the subsequence of the source lines with that hash, in
\* source order, repeated lines repeated.
C2_BucketIsSubsequence ==
    Built =>
        /\ DOMAIN anagrams = {anagram_hash(SourceLines[j]) : j \in DOMAIN SourceLines}
        /\ \A k \in DOMAIN anagrams :
              anagrams[k] = SelectSeq(SourceLines, LAMBDA w : anagram_hash(w) = k)

\* A bucket of three lines, two of them the same line and one another.
C2_Witness ==
    /\ Built
    /\ \E k \in DOMAIN anagrams :
          /\ Len(anagrams[k]) = 3
          /\ anagrams[k][1] = anagrams[k][3]
          /\ anagrams[k][1] # anagrams[k][2]

\* C3: a lookup of a word whose hash no source line has returns None, not an
\* empty list and not an error; no bucket is ever empty, so a returned list
\* holds at least one word.
C3_AbsentIsNone ==
    /\ \A k \in DOMAIN anagrams : anagrams[k] # <<>>
    /\ pc = "queried" =>
          /\ exc = NoExc
          /\ (\A j \in DOMAIN SourceLines :
                  anagram_hash(SourceLines[j]) # anagram_hash(query))
                => result = None
          /\ ~result.isNone => Len(result.value) >= 1

\* A lookup of an absent word in an index that has buckets.
C3_Witness ==
    /\ pc = "queried"
    /\ result = None
    /\ Cardinality(DOMAIN anagrams) >= 2

\* The capital of a letter of the model; 0 for a character that has none.
Upper(c) ==
    IF c >= 97 /\ c <= 122 THEN c - 32
    ELSE IF c \in {962, 963} THEN 931
    ELSE 0

\* Two words that differ only in the case of their letters.
SameUpToCase(u, v) ==
    /\ Len(u) = Len(v)
    /\ \A p \in DOMAIN u : u[p] = v[p] \/ Upper(u[p]) = v[p] \/ u[p] = Upper(v[p])

IsAscii(c) == c >= 0 /\ c <= 127

\* Two words that differ only in the case of their ASCII letters.
SameUpToAsciiCase(u, v) ==
    /\ SameUpToCase(u, v)
    /\ \A p \in DOMAIN u : u[p] = v[p] \/ (IsAscii(u[p]) /\ IsAscii(v[p]))

\* Lookups of query and of every word in relation R to it return the same,
\* and source words in relation R lie in one bucket as they were written.
CaseInsensitive(R(_, _)) ==
    /\ pc = "queried" =>
          \A w \in QueryWords :
              R(query, w) => DictGet(anagrams, anagram_hash(w)) = result
    /\ Built =>
          \A i \in DOMAIN SourceLines, j \in DOMAIN SourceLines :
              R(SourceLines[i], SourceLines[j]) =>
                  \E k \in DOMAIN anagrams :
                      {SourceLines[i], SourceLines[j]} \subseteq Range(anagrams[k])

\* C4 as stated: lookups of two words that differ only in the case of their
\* letters return the same, and source words that differ only in case share
\* a bucket in their original casing.
C4_AnyLetters == CaseInsensitive(SameUpToCase)

\* C4: lookups of two words that differ only in the case of their ASCII
\* letters return the same, and source words that differ only in the case of
\* their ASCII letters share a bucket in their original casing.
C4_AsciiLetters == CaseInsensitive(SameUpToAsciiCase)

\* A lookup of "A" returned a bucket that holds both "A" and "a".
C4_Witness ==
    /\ pc = "queried"
    /\ query = <<65>>
    /\ ~result.isNone
    /\ {<<65>>, <<97>>} \subseteq Range(result.value)

\* word with a space put before position p (after the end for Len + 1).
WithSpaceAt(word, p) ==
    SubSeq(word, 1, p - 1) \o <<SP>> \o SubSeq(word, p, Len(word))

\* The lowercased characters of a word that are not the space.
LoweredNonSpace(word) == Lower(SelectSeq(word, LAMBDA c : c # SP))

\* C5: the key ignores the space and nothing else: a space put into or taken
\* out of a word leaves its key and its lookup as they are, every other
\* character is kept and counted, and two words share a key exactly when
\* their lowercased non-space characters are the same multiset.
C5_SpacesOnlyIgnored ==
    pc = "queried" =>
        /\ \A p \in 1..(Len(query) + 1) :
              /\ anagram_hash(WithSpaceAt(query, p)) = anagram_hash(query)
              /\ DictGet(anagrams, anagram_hash(WithSpaceAt(query, p))) = result
        /\ Len(anagram_hash(query)) = Cardinality({p \in DOMAIN query : query[p] # SP})
        /\ \A w \in QueryWords \cup Range(SourceLines) :
              anagram_hash(w) = anagram_hash(query)
                  <=> SameBag(LoweredNonSpace(w), LoweredNonSpace(query))

\* A lookup of "BA" returned the bucket of "b a", in an index that keeps the
\* word "-a" in a bucket of its own.
C5_Witness ==
    /\ pc = "queried"
    /\ query = <<66, 65>>
    /\ result = Some(<<<<98, 32, 97>>>>)
    /\ <<45, 97>> \in DOMAIN anagrams

\* The source is neither a valid gzip stream nor decodable as text.
NeitherGzipNorText ==
    \/ source.kind = "truncated"
    \/ source.kind = "plain" /\ ~Decodable(source.content)

\* C6: building from a source that is neither valid gzip nor decodable text
\* fails with the RuntimeError 'Unsupported file <path>' and produces no
\* index object.
C6_UnsupportedFile ==
    (Finished /\ NeitherGzipNorText) =>
        /\ pc = "failed"
        /\ exc = Unsupported(words_file_path)

\* C7: a line that does not decode as text makes construction fail with the
\* RuntimeError on the gzip path and on the plain-text path alike; no other
\* exception escapes and the line is not skipped.
C7_DecodeFailureIsFormatError ==
    (Finished /\ source.kind \in {"gzip", "plain"} /\ ~Decodable(source.content)) =>
        /\ pc = "failed"
        /\ exc.type = "RuntimeError"

\* The index store_anagram builds from a list of lines.
RECURSIVE IndexOf(_)
IndexOf(lines) ==
    IF lines = <<>> THEN EmptyDict
    ELSE store_anagram(IndexOf(SubSeq(lines, 1, Len(lines) - 1)), lines[Len(lines)])

\* C8: the index built from the gzip form of some bytes and the index built
\* from the same bytes as plain text have the same keys and buckets.
C8_GzipEqualsPlain ==
    Built =>
        /\ source.kind = "gzip" => anagrams = IndexOf(TextReadlines(source.content))
        /\ source.kind = "plain" => anagrams = IndexOf(BinaryReadlines(source.content))

\* C9: a get_anagrams call leaves the keys and the buckets of a constructed
\* index as they are, and asking the word of the last call again returns
\* what that call returned.
C9_LookupsReadOnly ==
    [][/\ Built => anagrams' = anagrams
       /\ (pc = "queried" /\ query' = query) => result' = result]_vars

\* A lookup of an absent word has been answered by an index with a bucket.
C9_Witness ==
    /\ pc = "queried"
    /\ result.isNone
    /\ anagrams # EmptyDict

\* C10: when construction has returned or failed, every handle that was
\* opened is closed and the release step of the finally clause completed.
C10_HandlesReleased ==
    Finished =>
        /\ \A h \in DOMAIN handles : handles[h] # "open"
        /\ exc.type # "UnboundLocalError"

====
